---- MODULE Spec2Model ----
(***************************************************************************)
(* Inner-product argument of src/inner_product_proof.rs: the prover        *)
(* (create, fold_witness), the verifier (verification_scalars, verify)     *)
(* and the wire codec (to_bytes, from_bytes).                              *)
(*                                                                         *)
(* Scalars are the elements of a prime field F_q.  Points are the elements *)
(* of the free F_q-module over the bases G_1..G_N, H_1..H_N, Q (a group of *)
(* prime order q in which the bases are independent): a point is the       *)
(* vector of its coefficients.  The transcript is the log of the absorbed  *)
(* items; a squeezed challenge is a lazily sampled function of the log.    *)
(***************************************************************************)
EXTENDS Integers, Sequences, FiniteSets, TLC

-----------------------------------------------------------------------------
(* Bounds of the model *)

\* index into Primes of the order q of the scalar field
FieldChoice == 1
\* create is run on vectors of length 2^0 .. 2^MaxLgN
MaxLgN == 2
\* verification_scalars is run on proofs with up to MaxK rounds (and oversized ones)
MaxK == 3
\* the codec is run on proofs with up to MaxCodecK rounds (and on the cap)
MaxCodecK == 2
\* fold_witness is run on halves of every length m up to MaxFoldM, on both
\* sides of PARALLELISM_THRESHOLD
MaxFoldM == 11

Primes == <<5, 7, 11, 13, 17>>
q == Primes[FieldChoice]

-----------------------------------------------------------------------------
(* Program constants *)

SCALAR_BYTES == 32
STARK_POINT_BYTES == 32
PARALLELISM_THRESHOLD == 10
\* the cap on the number of rounds of a proof (lg_n >= 32 is rejected)
MAX_LG_N == 32

-----------------------------------------------------------------------------
(* Scalar: arithmetic of F_q *)

Scalars == 0 .. (q - 1)
NonZero == 1 .. (q - 1)

SAdd(x, y) == (x + y) % q
SMul(x, y) == (x * y) % q
SNeg(x) == (q - x) % q
\* Scalar::inverse, on a non-zero scalar
SInv(x) == CHOOSE y \in NonZero : (x * y) % q = 1

Pow2(k) == 2 ^ k

RECURSIVE SeqProduct(_)
\* iter().product() over scalars
SeqProduct(xs) ==
    IF xs = <<>> THEN 1 ELSE SMul(Head(xs), SeqProduct(Tail(xs)))

\* Scalar::batch_inverse: every element replaced by its inverse
batch_inverse(xs) == [i \in 1 .. Len(xs) |-> SInv(xs[i])]

\* util::exp_iter(x).take(n): 1, x, x^2, ...
RECURSIVE exp_iter(_, _)
exp_iter(x, n) ==
    IF n = 0 THEN <<>>
    ELSE LET prev == exp_iter(x, n - 1)
         IN  IF n = 1 THEN <<1>> ELSE Append(prev, SMul(prev[n - 1], x))

-----------------------------------------------------------------------------
(* StarkPoint: the free module over the bases *)

MaxN == Pow2(MaxLgN)
Dim == 2 * MaxN + 1

Points == [1 .. Dim -> Scalars]
Identity == [i \in 1 .. Dim |-> 0]
Unit(j) == [i \in 1 .. Dim |-> IF i = j THEN 1 ELSE 0]

PAdd(A, B) == [i \in 1 .. Dim |-> (A[i] + B[i]) % q]
PMul(s, A) == [i \in 1 .. Dim |-> (s * A[i]) % q]

\* the generators handed to create and verify
GenG(n) == [i \in 1 .. n |-> Unit(i)]
GenH(n) == [i \in 1 .. n |-> Unit(MaxN + i)]
GenQ == Unit(2 * MaxN + 1)

RECURSIVE msm(_, _)
\* StarkPoint::msm / msm_iter: sum of scalars[i] * points[i]
msm(scalars, points) ==
    IF scalars = <<>> \/ points = <<>> THEN Identity
    ELSE PAdd(PMul(Head(scalars), Head(points)), msm(Tail(scalars), Tail(points)))

\* slice[lo..hi) of a 0-indexed slice held as a 1-indexed sequence
Slice(s, lo, hi) == SubSeq(s, lo + 1, hi)

Zeros(n) == [i \in 1 .. n |-> 0]

\* StarkPoint::to_bytes: the coefficients, one per byte, zero padded
PointToBytes(A) == A \o Zeros(STARK_POINT_BYTES - Dim)

\* StarkPoint::from_bytes: an encoding no point has is rejected
PointBytesValid(bs) ==
    /\ Len(bs) = STARK_POINT_BYTES
    /\ \A i \in 1 .. Len(bs) : IF i <= Dim THEN bs[i] < q ELSE bs[i] = 0
PointFromBytes(bs) == SubSeq(bs, 1, Dim)

\* Scalar::to_bytes_be: 32 bytes, big endian
ScalarToBytes(x) == Append(Zeros(SCALAR_BYTES - 1), x)

RECURSIVE BytesModOrder(_, _)
\* the big-endian integer that the first upto bytes of bs hold, reduced mod q
BytesModOrder(bs, upto) ==
    IF upto = 0 THEN 0
    ELSE (BytesModOrder(bs, upto - 1) * 256 + bs[upto]) % q
\* Scalar::from_be_bytes_mod_order, on a slice of any length
from_be_bytes_mod_order(bs) == BytesModOrder(bs, Len(bs))

-----------------------------------------------------------------------------
(* inner_product *)

RECURSIVE inner_product(_, _)
inner_product(a, b) ==
    IF a = <<>> THEN 0
    ELSE SAdd(SMul(Head(a), Head(b)), inner_product(Tail(a), Tail(b)))

-----------------------------------------------------------------------------
(* Transcript: the log of absorbed items; Transcript::new gives the empty log *)

Transcript_new == <<>>

\* innerproduct_domain_sep(n): the protocol label with n
innerproduct_domain_sep(t, n) == Append(t, <<"dom-sep", <<n>>>>)
\* append_point(label, point)
append_point(t, label, point) == Append(t, <<label, point>>)
\* group validation of validate_and_append_point: the value is a group element
validate_point(point) == point \in Points
\* challenge_scalar(label): the squeeze is itself absorbed into the state
squeeze(t, label) == Append(t, <<label, <<>>>>)
\* the values challenge_scalar may return in state t, given the challenges
\* drawn so far: the challenge is a function of the state, and non-zero
challenge_scalar(orc, t) ==
    IF t \in DOMAIN orc THEN {orc[t]} ELSE NonZero

-----------------------------------------------------------------------------
(* fold_witness *)

Left(v, m) == SubSeq(v, 1, m)
Right(v, m) == SubSeq(v, m + 1, Len(v))

\* fold_at with the two scalars of the G term exchanged
fold_at_swapped(u, u_inv, a_L, a_R, b_L, b_R, G_L, G_R, H_L, H_R, i) ==
    << SAdd(SMul(a_L[i], u), SMul(u_inv, a_R[i])),
       SAdd(SMul(b_L[i], u_inv), SMul(u, b_R[i])),
       msm(<<u, u_inv>>, <<G_L[i], G_R[i]>>),
       msm(<<u, u_inv>>, <<H_L[i], H_R[i]>>) >>

\* the i-th folded element of each of a, b, G, H
fold_at(u, u_inv, a_L, a_R, b_L, b_R, G_L, G_R, H_L, H_R, i) ==
    << SAdd(SMul(a_L[i], u), SMul(u_inv, a_R[i])),
       SAdd(SMul(b_L[i], u_inv), SMul(u, b_R[i])),
       msm(<<u_inv, u>>, <<G_L[i], G_R[i]>>),
       msm(<<u, u_inv>>, <<H_L[i], H_R[i]>>) >>

RECURSIVE fold_serial(_, _, _, _, _, _, _, _, _, _, _)
\* the serial path: the results are pushed for i = 0 .. n-1 in turn
fold_serial(u, u_inv, a_L, a_R, b_L, b_R, G_L, G_R, H_L, H_R, upto) ==
    IF upto = 0 THEN << <<>>, <<>>, <<>>, <<>> >>
    ELSE LET prev == fold_serial(u, u_inv, a_L, a_R, b_L, b_R, G_L, G_R, H_L, H_R, upto - 1)
             e == fold_at(u, u_inv, a_L, a_R, b_L, b_R, G_L, G_R, H_L, H_R, upto)
         IN  << Append(prev[1], e[1]), Append(prev[2], e[2]),
                Append(prev[3], e[3]), Append(prev[4], e[4]) >>

\* fold_parallel with the results collected in the order of completion, the
\* last index first
fold_parallel_reversed(u, u_inv, a_L, a_R, b_L, b_R, G_L, G_R, H_L, H_R) ==
    LET res == [i \in 1 .. Len(a_L) |->
                  fold_at(u, u_inv, a_L, a_R, b_L, b_R, G_L, G_R, H_L, H_R,
                          Len(a_L) + 1 - i)]
    IN  << [i \in 1 .. Len(res) |-> res[i][1]], [i \in 1 .. Len(res) |-> res[i][2]],
           [i \in 1 .. Len(res) |-> res[i][3]], [i \in 1 .. Len(res) |-> res[i][4]] >>

\* the parallel path: collect_into_vec keeps the index order, then unzip
fold_parallel(u, u_inv, a_L, a_R, b_L, b_R, G_L, G_R, H_L, H_R) ==
    LET res == [i \in 1 .. Len(a_L) |->
                  fold_at(u, u_inv, a_L, a_R, b_L, b_R, G_L, G_R, H_L, H_R, i)]
    IN  << [i \in 1 .. Len(res) |-> res[i][1]], [i \in 1 .. Len(res) |-> res[i][2]],
           [i \in 1 .. Len(res) |-> res[i][3]], [i \in 1 .. Len(res) |-> res[i][4]] >>

fold_witness(u, u_inv, a_L, a_R, b_L, b_R, G_L, G_R, H_L, H_R) ==
    IF Len(a_L) < PARALLELISM_THRESHOLD
    THEN fold_serial(u, u_inv, a_L, a_R, b_L, b_R, G_L, G_R, H_L, H_R, Len(a_L))
    ELSE fold_parallel(u, u_inv, a_L, a_R, b_L, b_R, G_L, G_R, H_L, H_R)

-----------------------------------------------------------------------------
(* create: the L and R of a round *)

\* element-wise product of two scalar vectors (zip, map)
Hadamard(xs, ys) == [i \in 1 .. Len(xs) |-> SMul(xs[i], ys[i])]
\* the bases multiplied by their weights (zip, map)
Weighted(fs, ps) == [i \in 1 .. Len(ps) |-> PMul(fs[i], ps[i])]

\* first_round_L with the weights of the left half of G
first_round_L_low(m, a_L, b_R, c_L, G_factors, H_factors, G_R, H_L, Q) ==
    msm(Hadamard(a_L, Slice(G_factors, 0, m))
          \o Hadamard(b_R, Slice(H_factors, 0, m)) \o <<c_L>>,
        G_R \o H_L \o <<Q>>)

\* first round: the weights are folded into the scalars; m is the halved n
first_round_L(m, a_L, b_R, c_L, G_factors, H_factors, G_R, H_L, Q) ==
    msm(Hadamard(a_L, Slice(G_factors, m, 2 * m))
          \o Hadamard(b_R, Slice(H_factors, 0, m)) \o <<c_L>>,
        G_R \o H_L \o <<Q>>)

first_round_R(m, a_R, b_L, c_R, G_factors, H_factors, G_L, H_R, Q) ==
    msm(Hadamard(a_R, Slice(G_factors, 0, m))
          \o Hadamard(b_L, Slice(H_factors, m, 2 * m)) \o <<c_R>>,
        G_L \o H_R \o <<Q>>)

\* later rounds
round_L(a_L, b_R, c_L, G_R, H_L, Q) ==
    msm(a_L \o b_R \o <<c_L>>, G_R \o H_L \o <<Q>>)

round_R(a_R, b_L, c_R, G_L, H_R, Q) ==
    msm(a_R \o b_L \o <<c_R>>, G_L \o H_R \o <<Q>>)

-----------------------------------------------------------------------------
(* InnerProductProof and its codec *)

Proof(L, R, a, b) == [L_vec |-> L, R_vec |-> R, a |-> a, b |-> b]

Min(x, y) == IF x < y THEN x ELSE y

serialized_size(p) == (Len(p.L_vec) * 2) * STARK_POINT_BYTES + 2 * SCALAR_BYTES

RECURSIVE PairBytes_RL(_, _, _)
\* PairBytes with r written before l
PairBytes_RL(L, R, cnt) ==
    IF cnt = 0 THEN <<>>
    ELSE PairBytes_RL(L, R, cnt - 1) \o PointToBytes(R[cnt]) \o PointToBytes(L[cnt])

RECURSIVE PairBytes(_, _, _)
\* the bytes of the pairs (l, r) of L_vec.zip(R_vec), for the first cnt pairs
PairBytes(L, R, cnt) ==
    IF cnt = 0 THEN <<>>
    ELSE PairBytes(L, R, cnt - 1) \o PointToBytes(L[cnt]) \o PointToBytes(R[cnt])

to_bytes(p) ==
    PairBytes(p.L_vec, p.R_vec, Min(Len(p.L_vec), Len(p.R_vec)))
      \o ScalarToBytes(p.a) \o ScalarToBytes(p.b)

\* usize values: [big |-> FALSE, v |-> x] is x; [big |-> TRUE, v |-> x] is W + x,
\* W a power of two larger than every length (what a wrapped subtraction leaves)
Usize(x) == [big |-> FALSE, v |-> x]
\* x - c without overflow checks
WrappingSub(x, c) == [big |-> x.big \/ x.v < c, v |-> x.v - c]
\* x / d, d a power of two
UDiv(x, d) == [big |-> x.big, v |-> x.v \div d]
UAdd(x, c) == [big |-> x.big, v |-> x.v + c]
ULess(x, c) == ~x.big /\ x.v < c
UGeq(x, c) == x.big \/ x.v >= c
UOdd(x) == x.v % 2 /= 0

FormatErr(cnt) == [kind |-> "FormatError", proof |-> Proof(<<>>, <<>>, 0, 0), decodes |-> cnt]

RECURSIVE decode_points(_, _)
\* the loop of from_bytes over i = 0 .. upto-1: the points decoded so far, or the
\* failure; decodes counts the calls of StarkPoint::from_bytes
decode_points(slice, upto) ==
    IF upto = 0 THEN [ok |-> TRUE, L |-> <<>>, R |-> <<>>, decodes |-> 0]
    ELSE LET prev == decode_points(slice, upto - 1)
             pos == 2 * (upto - 1) * STARK_POINT_BYTES
             lb == Slice(slice, pos, pos + STARK_POINT_BYTES)
             rb == Slice(slice, pos + STARK_POINT_BYTES, pos + 2 * STARK_POINT_BYTES)
         IN  IF ~prev.ok THEN prev
             ELSE IF ~PointBytesValid(lb)
                  THEN [prev EXCEPT !.ok = FALSE, !.decodes = @ + 1]
             ELSE IF ~PointBytesValid(rb)
                  THEN [prev EXCEPT !.ok = FALSE, !.decodes = @ + 2]
             ELSE [ok |-> TRUE, L |-> Append(prev.L, PointFromBytes(lb)),
                   R |-> Append(prev.R, PointFromBytes(rb)), decodes |-> prev.decodes + 2]

\* lg_n_of_len without the cap on lg_n
lg_n_of_len_uncapped(len) ==
    LET num_points == UDiv(WrappingSub(Usize(len), 2 * SCALAR_BYTES), STARK_POINT_BYTES)
        num_elements == UAdd(num_points, 2)
        lg_n == UDiv(WrappingSub(num_elements, 2), 2)
    IN  IF ULess(num_elements, 2) THEN -1
        ELSE IF UOdd(WrappingSub(num_elements, 2)) THEN -1
        ELSE IF lg_n.big THEN -1
        ELSE lg_n.v

\* the length checks of from_bytes: the number of rounds, or the error
lg_n_of_len(len) ==
    LET num_points == UDiv(WrappingSub(Usize(len), 2 * SCALAR_BYTES), STARK_POINT_BYTES)
        num_elements == UAdd(num_points, 2)
        lg_n == UDiv(WrappingSub(num_elements, 2), 2)
    IN  IF ULess(num_elements, 2) THEN -1
        ELSE IF UOdd(WrappingSub(num_elements, 2)) THEN -1
        ELSE IF UGeq(lg_n, MAX_LG_N) THEN -1
        ELSE lg_n.v

\* from_bytes(slice); overflow_checks is the build's setting of the arithmetic
\* overflow checks (on: b - 2 * SCALAR_BYTES panics when it underflows)
from_bytes(slice, overflow_checks) ==
    LET b == Len(slice)
        lg_n == lg_n_of_len(b)
    IN  IF overflow_checks /\ b < 2 * SCALAR_BYTES
        THEN [FormatErr(0) EXCEPT !.kind = "panic"]
        ELSE IF lg_n < 0 THEN FormatErr(0)
        ELSE LET pts == decode_points(slice, lg_n)
                 pos == 2 * lg_n * STARK_POINT_BYTES
             IN  IF ~pts.ok THEN FormatErr(pts.decodes)
                 ELSE [kind |-> "Ok",
                       proof |-> Proof(pts.L, pts.R,
                                   from_be_bytes_mod_order(Slice(slice, pos, pos + SCALAR_BYTES)),
                                   from_be_bytes_mod_order(Slice(slice, pos + SCALAR_BYTES, b))),
                       decodes |-> pts.decodes]

-----------------------------------------------------------------------------
(* verification_scalars *)

RECURSIVE BitLen(_)
\* number of significant bits of x
BitLen(x) == IF x = 0 THEN 0 ELSE 1 + BitLen(x \div 2)
\* u32::leading_zeros
leading_zeros(x) == 32 - BitLen(x)
\* (32 - 1 - (i as u32).leading_zeros()) as usize
lg_of(i) == 32 - 1 - leading_zeros(i)

\* the two size checks that precede every transcript operation
size_check_fails(lg_n, n) ==
    IF lg_n >= MAX_LG_N THEN TRUE ELSE n /= Pow2(lg_n)

RECURSIVE challenge_loop_RL(_, _, _, _, _)
\* challenge_loop with R absorbed before L
challenge_loop_RL(L_vec, R_vec, us, t, upto) ==
    IF upto = 0
    THEN [ok |-> TRUE, transcript |-> t, challenges |-> <<>>, queries |-> <<>>]
    ELSE LET prev == challenge_loop_RL(L_vec, R_vec, us, t, upto - 1)
             t1 == append_point(prev.transcript, "R", R_vec[upto])
             t2 == append_point(t1, "L", L_vec[upto])
         IN  IF ~prev.ok THEN prev
             ELSE IF ~validate_point(R_vec[upto]) THEN [prev EXCEPT !.ok = FALSE]
             ELSE IF ~validate_point(L_vec[upto])
                  THEN [prev EXCEPT !.ok = FALSE, !.transcript = t1]
             ELSE [ok |-> TRUE, transcript |-> squeeze(t2, "u"),
                   challenges |-> Append(prev.challenges, us[upto]),
                   queries |-> Append(prev.queries, <<t2, us[upto]>>)]

RECURSIVE challenge_loop(_, _, _, _, _)
\* step 1, the loop over L_vec.zip(R_vec), after its first upto pairs; us[i] is
\* the challenge squeezed in round i; queries are the (state, challenge) pairs
challenge_loop(L_vec, R_vec, us, t, upto) ==
    IF upto = 0
    THEN [ok |-> TRUE, transcript |-> t, challenges |-> <<>>, queries |-> <<>>]
    ELSE LET prev == challenge_loop(L_vec, R_vec, us, t, upto - 1)
             t1 == append_point(prev.transcript, "L", L_vec[upto])
             t2 == append_point(t1, "R", R_vec[upto])
         IN  IF ~prev.ok THEN prev
             ELSE IF ~validate_point(L_vec[upto]) THEN [prev EXCEPT !.ok = FALSE]
             ELSE IF ~validate_point(R_vec[upto])
                  THEN [prev EXCEPT !.ok = FALSE, !.transcript = t1]
             ELSE [ok |-> TRUE, transcript |-> squeeze(t2, "u"),
                   challenges |-> Append(prev.challenges, us[upto]),
                   queries |-> Append(prev.queries, <<t2, us[upto]>>)]

\* squares without the squaring
squares_skipped(xs) == xs

\* step 3: the squares, element by element
squares(xs) == [i \in 1 .. Len(xs) |-> SMul(xs[i], xs[i])]

\* sq_index for challenges stored last round first
sq_index_forward(lg_n, lg_i) == lg_i

\* the index into challenges_sq of the challenge that s[i] introduces
sq_index(lg_n, lg_i) == (lg_n - 1) - lg_i

RECURSIVE s_loop(_, _, _, _)
\* step 4: s after the pushes of s[0] .. s[upto-1]
s_loop(challenges_sq, lg_n, allinv, upto) ==
    IF upto = 1 THEN <<allinv>>
    ELSE LET prev == s_loop(challenges_sq, lg_n, allinv, upto - 1)
             i == upto - 1
             lg_i == lg_of(i)
             k == Pow2(lg_i)
             u_lg_i_sq == challenges_sq[sq_index(lg_n, lg_i) + 1]
         IN  Append(prev, SMul(prev[(i - k) + 1], u_lg_i_sq))

VsResult(kind, t, ch, usq, uinvsq, sv, qs) ==
    [kind |-> kind, transcript |-> t, challenges |-> ch, u_sq |-> usq,
     u_inv_sq |-> uinvsq, s |-> sv, queries |-> qs]

\* early_error with the domain separator absorbed before the size checks
early_error_after_sep(transcript, n) ==
    VsResult("VerificationError", innerproduct_domain_sep(transcript, n),
             <<>>, <<>>, <<>>, <<>>, <<>>)

\* the return of the size checks: nothing has touched the transcript
early_error(transcript, n) ==
    VsResult("VerificationError", transcript, <<>>, <<>>, <<>>, <<>>, <<>>)

\* verification_scalars(&self, n, transcript), the challenges being us
verification_scalars(self, n, transcript, us) ==
    LET lg_n == Len(self.L_vec)
        rounds == Min(Len(self.L_vec), Len(self.R_vec))
        lp == challenge_loop(self.L_vec, self.R_vec, us,
                             innerproduct_domain_sep(transcript, n), rounds)
        challenges_inv == batch_inverse(lp.challenges)
        allinv == SeqProduct(challenges_inv)
    IN  IF size_check_fails(lg_n, n) THEN early_error(transcript, n)
        ELSE IF ~lp.ok
        THEN VsResult("VerificationError", lp.transcript, lp.challenges, <<>>, <<>>, <<>>,
                      lp.queries)
        ELSE IF Len(lp.challenges) < lg_n
        \* challenges[i] for i in 0..lg_n indexes past the end
        THEN VsResult("panic", lp.transcript, lp.challenges, <<>>, <<>>, <<>>, lp.queries)
        ELSE VsResult("Ok", lp.transcript, lp.challenges, squares(lp.challenges),
                      squares(challenges_inv),
                      s_loop(squares(lp.challenges), lg_n, allinv, n), lp.queries)

-----------------------------------------------------------------------------
(* verify *)

Reverse(xs) == [i \in 1 .. Len(xs) |-> xs[Len(xs) + 1 - i]]
Take(xs, m) == SubSeq(xs, 1, Min(m, Len(xs)))
Negated(xs) == [i \in 1 .. Len(xs) |-> SNeg(xs[i])]

\* the scalars of the H term: H_factors zipped with s reversed
h_times_b_div_s(self, H_factors, sv) ==
    LET inv_s == Reverse(sv)
    IN  [i \in 1 .. Min(Len(H_factors), Len(inv_s)) |->
            SMul(SMul(self.b, inv_s[i]), H_factors[i])]

\* the scalars of the G term: G_factors zipped with s, at most G.len() of them
g_times_a_times_s(self, G_factors, sv, G) ==
    Take([i \in 1 .. Min(Len(G_factors), Len(sv)) |->
            SMul(SMul(self.a, sv[i]), G_factors[i])], Len(G))

expect_P(self, vs, G_factors, H_factors, Q, G, H) ==
    msm(<<SMul(self.a, self.b)>> \o g_times_a_times_s(self, G_factors, vs.s, G)
          \o h_times_b_div_s(self, H_factors, vs.s)
          \o Negated(vs.u_sq) \o Negated(vs.u_inv_sq),
        <<Q>> \o G \o H \o self.L_vec \o self.R_vec)

\* verify without the comparison of expect_P with P
verify_unchecked(self, vs, G_factors, H_factors, P, Q, G, H) == vs.kind

\* verify(&self, n, transcript, G_factors, H_factors, P, Q, G, H), given the
\* outcome vs of its call of verification_scalars
verify(self, vs, G_factors, H_factors, P, Q, G, H) ==
    IF vs.kind /= "Ok" THEN vs.kind
    ELSE IF expect_P(self, vs, G_factors, H_factors, Q, G, H) = P THEN "Ok"
    ELSE "VerificationError"

-----------------------------------------------------------------------------
(* State *)

VARIABLES
    pc,          \* position of the run
    n_in,        \* create's inputs: the length n,
    G_factors,   \*   the weights of G,
    H_factors,   \*   the weights of H,
    a_in,        \*   the witness a,
    b_in,        \*   the witness b,
    G_in,        \*   the bases G,
    H_in,        \*   the bases H
    n,           \* create's locals
    a_vec, b_vec, G_vec, H_vec,
    L_vec, R_vec,
    transcript,  \* the transcript handed to the running call
    oracle,      \* the challenges squeezed so far, by transcript state
    u_hist,      \* the challenges create squeezed, in order
    ptrace,      \* the transcript as create left it
    proof,       \* the InnerProductProof
    buf,         \* the byte slice
    decoded,     \* the outcome of from_bytes
    path,        \* how the verified proof was obtained
    vn,          \* the n handed to the verifier
    vs,          \* the outcome of verification_scalars
    result       \* the outcome of verify

vars == << pc, n_in, G_factors, H_factors, a_in, b_in, G_in, H_in, n, a_vec, b_vec, G_vec, H_vec,
           L_vec, R_vec, transcript, oracle, u_hist, ptrace, proof, buf, decoded,
           path, vn, vs, result >>

inputVars == << n_in, G_factors, H_factors, a_in, b_in, G_in, H_in >>
createVars == << n, a_vec, b_vec, G_vec, H_vec, L_vec, R_vec, u_hist >>

NoProof == Proof(<<>>, <<>>, 0, 0)
NoVs == VsResult("none", <<>>, <<>>, <<>>, <<>>, <<>>, <<>>)
EmptyOracle == [t \in {} |-> 0]

\* the variables no call has written yet
Blank ==
    /\ transcript = Transcript_new /\ oracle = EmptyOracle
    /\ u_hist = <<>> /\ ptrace = <<>> /\ proof = NoProof /\ buf = <<>>
    /\ decoded = FormatErr(0) /\ path = "none" /\ vs = NoVs /\ result = "none"
    /\ L_vec = <<>> /\ R_vec = <<>>

-----------------------------------------------------------------------------
(* The inputs of a run of the protocol, after tests::test_helper_create *)

\* the vector s, s + t, s + 2t, ...
Affine(s, t, len) == [i \in 1 .. len |-> (s + t * (i - 1)) % q]

Sizes == {Pow2(k) : k \in 0 .. MaxLgN}
WitnessA(len) == {Affine(s, 1, len) : s \in {0, 1, 2}}
WitnessB(len) == {Affine(s, 2, len) : s \in {0, 1}}
\* <<G_factors, H_factors>>: all ones with the powers of any y_inv, as in the
\* test, or the powers of 2 with the powers of 3
Weights(len) ==
    {<<exp_iter(1, len), exp_iter(y_inv, len)>> : y_inv \in NonZero}
      \cup {<<exp_iter(2, len), exp_iter(3, len)>>}

\* P = <a o G_factors, G> + <b o H_factors, H> + <a,b> Q
commitment(a, b, Gf, Hf, G, H, Q) ==
    msm(Hadamard(a, Gf) \o Hadamard(b, Hf) \o <<inner_product(a, b)>>,
        G \o H \o <<Q>>)

P_in == commitment(a_in, b_in, G_factors, H_factors, GenG(n_in), GenH(n_in), GenQ)

Init ==
    /\ pc = "start"
    /\ n_in \in Sizes
    /\ a_in \in WitnessA(n_in)
    /\ b_in \in WitnessB(n_in)
    /\ \E w \in Weights(n_in) : G_factors = w[1] /\ H_factors = w[2]
    /\ n = n_in /\ vn = n_in
    /\ a_vec = a_in /\ b_vec = b_in
    /\ G_in = GenG(n_in) /\ H_in = GenH(n_in)
    /\ G_vec = G_in /\ H_vec = H_in
    /\ Blank

-----------------------------------------------------------------------------
(* create *)

\* lines 59-76: the assertions hold of the inputs; the domain separator
CreateBegin ==
    /\ pc = "start"
    /\ transcript' = innerproduct_domain_sep(transcript, n)
    /\ pc' = "first"
    /\ UNCHANGED << inputVars, createVars, oracle, ptrace, proof, buf, decoded,
                    path, vn, vs, result >>

\* lines 80-147: the first round
CreateFirstRound ==
    /\ pc = "first" /\ n /= 1
    /\ LET m == n \div 2
           a_L == Left(a_vec, m)   a_R == Right(a_vec, m)
           b_L == Left(b_vec, m)   b_R == Right(b_vec, m)
           G_L == Left(G_vec, m)   G_R == Right(G_vec, m)
           H_L == Left(H_vec, m)   H_R == Right(H_vec, m)
           c_L == inner_product(a_L, b_R)
           c_R == inner_product(a_R, b_L)
           L == first_round_L(m, a_L, b_R, c_L, G_factors, H_factors, G_R, H_L, GenQ)
           R == first_round_R(m, a_R, b_L, c_R, G_factors, H_factors, G_L, H_R, GenQ)
           t2 == append_point(append_point(transcript, "L", L), "R", R)
           G == Weighted(G_factors, G_vec)
           H == Weighted(H_factors, H_vec)
       IN  \E u \in challenge_scalar(oracle, t2) :
             LET folded == fold_witness(u, SInv(u), a_L, a_R, b_L, b_R,
                                        Left(G, m), Right(G, m), Left(H, m), Right(H, m))
             IN  /\ n' = m
                 /\ L_vec' = Append(L_vec, L)
                 /\ R_vec' = Append(R_vec, R)
                 /\ oracle' = (t2 :> u) @@ oracle
                 /\ transcript' = squeeze(t2, "u")
                 /\ u_hist' = Append(u_hist, u)
                 /\ a_vec' = folded[1] /\ b_vec' = folded[2]
                 /\ G_vec' = folded[3] /\ H_vec' = folded[4]
    /\ pc' = "loop"
    /\ UNCHANGED << inputVars, ptrace, proof, buf, decoded, path, vn, vs, result >>

\* lines 149-185: a later round
CreateRound ==
    /\ pc = "loop" /\ n /= 1
    /\ LET m == n \div 2
           a_L == Left(a_vec, m)   a_R == Right(a_vec, m)
           b_L == Left(b_vec, m)   b_R == Right(b_vec, m)
           G_L == Left(G_vec, m)   G_R == Right(G_vec, m)
           H_L == Left(H_vec, m)   H_R == Right(H_vec, m)
           c_L == inner_product(a_L, b_R)
           c_R == inner_product(a_R, b_L)
           L == round_L(a_L, b_R, c_L, G_R, H_L, GenQ)
           R == round_R(a_R, b_L, c_R, G_L, H_R, GenQ)
           t2 == append_point(append_point(transcript, "L", L), "R", R)
       IN  \E u \in challenge_scalar(oracle, t2) :
             LET folded == fold_witness(u, SInv(u), a_L, a_R, b_L, b_R,
                                        G_L, G_R, H_L, H_R)
             IN  /\ n' = m
                 /\ L_vec' = Append(L_vec, L)
                 /\ R_vec' = Append(R_vec, R)
                 /\ oracle' = (t2 :> u) @@ oracle
                 /\ transcript' = squeeze(t2, "u")
                 /\ u_hist' = Append(u_hist, u)
                 /\ a_vec' = folded[1] /\ b_vec' = folded[2]
                 /\ G_vec' = folded[3] /\ H_vec' = folded[4]
    /\ pc' = "loop"
    /\ UNCHANGED << inputVars, ptrace, proof, buf, decoded, path, vn, vs, result >>

\* lines 187-192: the proof is returned
CreateFinish ==
    /\ pc \in {"first", "loop"} /\ n = 1
    /\ proof' = Proof(L_vec, R_vec, a_vec[1], b_vec[1])
    /\ ptrace' = transcript
    /\ pc' = "created"
    /\ UNCHANGED << inputVars, createVars, transcript, oracle, buf, decoded,
                    path, vn, vs, result >>

-----------------------------------------------------------------------------
(* The codec at work *)

\* to_bytes of the proof at hand
ToBytes ==
    /\ pc = "created"
    /\ buf' = to_bytes(proof)
    /\ path' = "codec"
    /\ pc' = "bytes"
    /\ UNCHANGED << inputVars, createVars, transcript, oracle, ptrace, proof, decoded,
                    vn, vs, result >>

\* byte with bit j flipped
flip(byte, j) ==
    IF (byte \div Pow2(j)) % 2 = 1 THEN byte - Pow2(j) ELSE byte + Pow2(j)

\* the flipped bits: <<i, j>> is bit j of the i-th byte from the end
TamperBits == {<<0, 0>>, <<SCALAR_BYTES - 1, 7>>}

\* one bit of the second scalar of the serialization is flipped
FlipBit ==
    /\ pc = "bytes" /\ path = "codec"
    /\ \E bit \in TamperBits :
         buf' = [buf EXCEPT ![Len(buf) - bit[1]] = flip(@, bit[2])]
    /\ path' = "tampered"
    /\ UNCHANGED << pc, inputVars, createVars, transcript, oracle, ptrace, proof, decoded,
                    vn, vs, result >>

\* from_bytes of the slice at hand, in a build with or without overflow checks
FromBytes ==
    /\ pc = "bytes"
    /\ \E overflow_checks \in BOOLEAN :
         decoded' = from_bytes(buf, overflow_checks)
    /\ pc' = "decoded"
    /\ UNCHANGED << inputVars, createVars, transcript, oracle, ptrace, proof, buf, path,
                    vn, vs, result >>

-----------------------------------------------------------------------------
(* The verifier at work *)

\* the challenge vectors the transcript can give the loop of verification_scalars
\* that starts in state t
Challenges(self, nn, t) ==
    LET rounds == Min(Len(self.L_vec), Len(self.R_vec))
    IN  IF size_check_fails(Len(self.L_vec), nn) THEN {<<>>}
        ELSE { us \in [1 .. rounds -> NonZero] :
                 LET lp == challenge_loop(self.L_vec, self.R_vec, us,
                                          innerproduct_domain_sep(t, nn), rounds)
                 IN  /\ \A j \in 1 .. Len(lp.queries) :
                            lp.queries[j][2] \in challenge_scalar(oracle, lp.queries[j][1])
                     \* the challenges of rounds that are not run are not drawn
                     /\ \A j \in (Len(lp.queries) + 1) .. rounds : us[j] = 1 }

\* the oracle after the queries qs
Learned(orc, qs) ==
    [t \in DOMAIN orc \cup {qs[j][1] : j \in 1 .. Len(qs)} |->
        IF t \in DOMAIN orc THEN orc[t]
        ELSE LET j == CHOOSE j \in 1 .. Len(qs) : qs[j][1] = t IN qs[j][2]]

\* verify, on a fresh transcript, of the proof as created or as decoded
Verify ==
    /\ \/ pc = "created" /\ path' = "direct"
       \/ pc = "decoded" /\ decoded.kind = "Ok" /\ path' = path
    /\ LET self == IF pc = "created" THEN proof ELSE decoded.proof
       IN  \E us \in Challenges(self, vn, Transcript_new) :
             LET vsr == verification_scalars(self, vn, Transcript_new, us)
             IN  /\ vs' = vsr
                 /\ transcript' = vsr.transcript
                 /\ oracle' = Learned(oracle, vsr.queries)
                 /\ result' = verify(self, vsr, G_factors, H_factors, P_in, GenQ,
                                     GenG(n_in), GenH(n_in))
    /\ pc' = "verified"
    /\ UNCHANGED << inputVars, createVars, ptrace, proof, buf, decoded, vn >>

Next ==
    \/ CreateBegin
    \/ CreateFirstRound
    \/ CreateRound
    \/ CreateFinish
    \/ ToBytes
    \/ FlipBit
    \/ FromBytes
    \/ Verify

Spec == Init /\ [][Next]_vars

-----------------------------------------------------------------------------
(* Claims about a run of the protocol (Spec) *)

Ones(len) == [i \in 1 .. len |-> 1]
Created == pc \notin {"start", "first", "loop"}

\* verify's answer for the proof as create returned it
Accepted(p) ==
    verify(p, verification_scalars(p, n_in, Transcript_new, u_hist),
           G_factors, H_factors, P_in, GenQ, GenG(n_in), GenH(n_in)) = "Ok"

\* C1 Completeness: with G_factors all ones and H_factors the powers of y^-1,
\* the proof create returns for P = <a,G> + <b o H_factors,H> + <a,b>Q is
\* accepted by verify on a transcript in the state create started from, both
\* as returned and after to_bytes and from_bytes.
C1_Completeness ==
    (pc = "verified" /\ path \in {"direct", "codec"} /\ G_factors = Ones(n_in))
        => result = "Ok"

C1_Witness ==
    /\ pc = "verified" /\ path = "codec" /\ result = "Ok"
    /\ n_in = MaxN /\ G_factors = Ones(n_in) /\ H_factors /= Ones(n_in)
    /\ proof.a /= 0 /\ proof.b /= 0

RECURSIVE ExpectedTrace(_, _, _, _)
\* domain_sep(len) and then, per round, append L, append R, challenge u
ExpectedTrace(len, Ls, Rs, rounds) ==
    IF rounds = 0 THEN << <<"dom-sep", <<len>>>> >>
    ELSE ExpectedTrace(len, Ls, Rs, rounds - 1)
           \o << <<"L", Ls[rounds]>>, <<"R", Rs[rounds]>>, <<"u", <<>>>> >>

RECURSIVE Log2(_)
Log2(x) == IF x <= 1 THEN 0 ELSE 1 + Log2(x \div 2)

\* C4 Transcript discipline: create absorbs the domain separator and then, per
\* round and in this order, L, R and the squeeze of u, nothing else; it runs
\* log2(n) rounds; verification_scalars on the proof performs the same
\* sequence and derives the challenges create used.
C4_TranscriptDiscipline ==
    /\ pc \in {"first", "loop"} =>
          /\ Len(L_vec) = Len(R_vec)
          /\ transcript = ExpectedTrace(n_in, L_vec, R_vec, Len(L_vec))
    /\ Created =>
          /\ Len(proof.L_vec) = Log2(n_in) /\ Len(proof.R_vec) = Log2(n_in)
          /\ ptrace = ExpectedTrace(n_in, proof.L_vec, proof.R_vec, Log2(n_in))
          /\ Len(u_hist) = Log2(n_in)
    /\ (pc = "verified" /\ path = "direct") =>
          /\ vs.transcript = ptrace
          /\ vs.challenges = u_hist

C4_Witness ==
    /\ pc = "verified" /\ path = "direct" /\ n_in = MaxN
    /\ Len(vs.challenges) = MaxLgN /\ vs.challenges = u_hist
    /\ \E i, j \in 1 .. Len(u_hist) : u_hist[i] /= u_hist[j]

\* C7 Tamper rejection: a proof that verify accepts, with its final scalar b
\* replaced by another value (one bit of the second scalar of its
\* serialization flipped) and all else unchanged, is rejected by verify.
C7_TamperRejected ==
    ( /\ pc = "verified" /\ path = "tampered"
      /\ Accepted(proof)
      /\ \A i \in 1 .. n_in : H_factors[i] /= 0
      /\ decoded.proof.b /= proof.b
      /\ decoded.proof = [proof EXCEPT !.b = decoded.proof.b] )
        => result = "VerificationError"

C7_Witness ==
    /\ pc = "verified" /\ path = "tampered" /\ n_in = MaxN
    /\ Accepted(proof)
    /\ decoded.proof.b /= proof.b
    /\ decoded.proof = [proof EXCEPT !.b = decoded.proof.b]
    /\ result = "VerificationError"

\* C10 The first round is the later round on pre-weighted bases: its L and R
\* equal those of the later round computed over G'_i = G_factors_i * G_i and
\* H'_i = H_factors_i * H_i, and the vectors it hands on are the fold of the
\* halves of the witness and of those weighted bases.
C10_FirstRoundTransparent ==
    (pc = "loop" /\ Len(L_vec) = 1) =>
        LET m == n_in \div 2
            Gw == Weighted(G_factors, GenG(n_in))
            Hw == Weighted(H_factors, GenH(n_in))
            a_L == Left(a_in, m)
            a_R == Right(a_in, m)
            b_L == Left(b_in, m)
            b_R == Right(b_in, m)
            u == u_hist[1]
        IN  /\ L_vec[1] = round_L(a_L, b_R, inner_product(a_L, b_R),
                                  Right(Gw, m), Left(Hw, m), GenQ)
            /\ R_vec[1] = round_R(a_R, b_L, inner_product(a_R, b_L),
                                  Left(Gw, m), Right(Hw, m), GenQ)
            /\ << a_vec, b_vec, G_vec, H_vec >> =
                  fold_witness(u, SInv(u), a_L, a_R, b_L, b_R,
                               Left(Gw, m), Right(Gw, m), Left(Hw, m), Right(Hw, m))

C10_Witness ==
    /\ pc = "loop" /\ Len(L_vec) = 1 /\ n_in = MaxN
    /\ G_factors /= Ones(n_in) /\ H_factors /= Ones(n_in)
    /\ L_vec[1] /= Identity /\ R_vec[1] /= Identity

-----------------------------------------------------------------------------
(* verification_scalars on any proof value and any n (SpecVerifier) *)

\* the variables of create, unused
NoCreate ==
    /\ n_in = 0 /\ G_factors = <<>> /\ H_factors = <<>> /\ a_in = <<>> /\ b_in = <<>>
    /\ G_in = <<>> /\ H_in = <<>>
    /\ n = 0 /\ a_vec = <<>> /\ b_vec = <<>> /\ G_vec = <<>> /\ H_vec = <<>>
    /\ L_vec = <<>> /\ R_vec = <<>> /\ u_hist = <<>> /\ ptrace = <<>>

\* a value of type StarkPoint that is no element of the group
NotOnCurve == [i \in 1 .. Dim |-> q]

\* L_vec and R_vec are public fields: any lengths, any values; bad = 2i-1 makes
\* L_vec[i] invalid, bad = 2i makes R_vec[i] invalid
SamplePoint(i, side, bad) ==
    IF bad = 2 * i - (IF side = "L" THEN 1 ELSE 0) THEN NotOnCurve
    ELSE PAdd(IF side = "L" THEN GenQ ELSE Unit(1), PMul(i % q, Unit(2)))

VerifierLens == (0 .. MaxK) \cup {MAX_LG_N, MAX_LG_N + 1}

VerifierProofs ==
    { Proof([i \in 1 .. lenL |-> SamplePoint(i, "L", bad)],
            [i \in 1 .. lenR |-> SamplePoint(i, "R", bad)], 1, 1) :
        lenL \in VerifierLens,
        lenR \in VerifierLens \cup {MaxK + 1},
        bad \in {0, 1, 4} }

VerifierNs == 0 .. (Pow2(MaxK) + 1)

\* the transcript of a parent protocol
ParentTranscript == << <<"parent", <<>>>> >>

InitVerifier ==
    /\ pc = "vstart"
    /\ proof \in VerifierProofs
    /\ (Len(proof.R_vec) - Len(proof.L_vec)) \in {-1, 0, 1}
    /\ vn \in VerifierNs
    /\ transcript \in {Transcript_new, ParentTranscript}
    /\ NoCreate
    /\ oracle = EmptyOracle /\ buf = <<>> /\ decoded = FormatErr(0)
    /\ path = "direct" /\ vs = NoVs /\ result = "none"

\* verification_scalars(&self, n, transcript)
VerificationScalars ==
    /\ pc = "vstart"
    /\ \E us \in Challenges(proof, vn, transcript) :
         LET vsr == verification_scalars(proof, vn, transcript, us)
         IN  /\ vs' = vsr
             /\ transcript' = vsr.transcript
             /\ oracle' = Learned(oracle, vsr.queries)
    /\ pc' = "vdone"
    /\ UNCHANGED << inputVars, createVars, ptrace, proof, buf, decoded, path, vn, result >>

NextVerifier == VerificationScalars

SpecVerifier == InitVerifier /\ [][NextVerifier]_vars

-----------------------------------------------------------------------------
(* Claims about verification_scalars (SpecVerifier) *)

\* k >= 32, or n is not 2^k
Oversized(p, nn) ==
    \/ Len(p.L_vec) >= 32
    \/ Len(p.L_vec) < 32 /\ nn /= 2 ^ Len(p.L_vec)

\* C5 Early rejection: when |L_vec| >= 32 or n /= 2^|L_vec|, the call returns
\* VerificationError (and so does verify, which propagates it) and leaves the
\* transcript exactly as it was passed in.
C5_EarlyReject ==
    [][ (pc = "vstart" /\ Oversized(proof, vn)) =>
            /\ vs'.kind = "VerificationError"
            /\ verify(proof, vs', <<>>, <<>>, Identity, GenQ, <<>>, <<>>) = "VerificationError"
            /\ transcript' = transcript
            /\ oracle' = oracle ]_vars

C5_Witness ==
    /\ pc = "vdone" /\ vs.kind = "VerificationError"
    /\ Len(proof.L_vec) = 2 /\ vn = 2 ^ 3
    /\ transcript = ParentTranscript

\* C8 s-vector inverse identity: for n = 2^k and non-zero challenges the
\* returned s has length n and s[n-1-i] * s[i] = 1 for every i, so s reversed
\* is the element-wise inverse of s.
C8_SInverse ==
    (pc = "vdone" /\ vs.kind = "Ok") =>
        /\ Len(vs.s) = vn
        /\ vn = 2 ^ Len(proof.L_vec)
        /\ \A i \in 0 .. (vn - 1) : SMul(vs.s[(vn - 1 - i) + 1], vs.s[i + 1]) = 1
        /\ \A i \in 1 .. vn : Reverse(vs.s)[i] = SInv(vs.s[i])

C8_Witness ==
    /\ pc = "vdone" /\ vs.kind = "Ok" /\ vn = 2 ^ MaxK /\ Len(vs.s) = vn
    /\ \E i, j \in 1 .. vn : vs.s[i] /= vs.s[j]
    /\ \E i \in 1 .. MaxK : vs.challenges[i] \notin {1, q - 1}

\* bit j of i, bit 0 the least significant
BitOf(i, j) == (i \div (2 ^ j)) % 2
\* u_m, the challenges being named [u_k, ..., u_1] in creation order
U(ch, m) == ch[(Len(ch) - m) + 1]
\* c if the bit is set, else its inverse
Signed(c, bit) == IF bit = 1 THEN c ELSE SInv(c)

RECURSIVE BitProductHigh(_, _, _)
\* the product over j = 0 .. upto-1 of u_{k-j} or its inverse, by bit j of i
BitProductHigh(ch, i, upto) ==
    IF upto = 0 THEN 1
    ELSE SMul(BitProductHigh(ch, i, upto - 1),
              Signed(U(ch, Len(ch) - (upto - 1)), BitOf(i, upto - 1)))

RECURSIVE BitProductLow(_, _, _)
\* the product over j = 0 .. upto-1 of u_{j+1} or its inverse, by bit j of i
BitProductLow(ch, i, upto) ==
    IF upto = 0 THEN 1
    ELSE SMul(BitProductLow(ch, i, upto - 1),
              Signed(U(ch, upto), BitOf(i, upto - 1)))

\* C9 as stated: s_i is the product over j of u_{k-j} if bit j of i is 1, else
\* of its inverse, bit 0 being the least significant bit of i.
C9_AsStated ==
    (pc = "vdone" /\ vs.kind = "Ok") =>
        \A i \in 0 .. (vn - 1) :
            vs.s[i + 1] = BitProductHigh(vs.challenges, i, Len(vs.challenges))

\* C9 s-vector against the bitwise oracle, amended: s_i is the product over
\* j = 0..k-1 of u_{j+1} if bit j of i is 1, else of its inverse, bit 0 being
\* the least significant bit of i: the last challenge squeezed, u_1, goes
\* with the least significant bit and the first, u_k, with the most
\* significant.
C9_BitwiseOracle ==
    (pc = "vdone" /\ vs.kind = "Ok") =>
        \A i \in 0 .. (vn - 1) :
            vs.s[i + 1] = BitProductLow(vs.challenges, i, Len(vs.challenges))

C9_Witness ==
    /\ pc = "vdone" /\ vs.kind = "Ok" /\ vn = 2 ^ MaxK
    /\ vs.s[2] = BitProductLow(vs.challenges, 1, MaxK)
    /\ vs.s[2] /= BitProductHigh(vs.challenges, 1, MaxK)

\* C12 as stated: verification_scalars never aborts: for every proof value,
\* also one with |R_vec| < |L_vec| and n = 2^|L_vec|, and every n it returns
\* Ok or VerificationError, with no index past the end of the challenges.
C12_NeverAborts ==
    pc = "vdone" => vs.kind \in {"Ok", "VerificationError"}

-----------------------------------------------------------------------------
(* The codec on any proof value and any slice (SpecCodec) *)

CodecLens == (0 .. MaxCodecK) \cup {MAX_LG_N - 1, MAX_LG_N}

CodecProofs ==
    { Proof([i \in 1 .. k |-> PAdd(seed, PMul(i % q, GenQ))],
            [i \in 1 .. k |-> PAdd(PMul(2, seed), PMul(i % q, Unit(1)))], a, b) :
        k \in CodecLens, seed \in {Unit(1), Unit(2)}, a \in Scalars, b \in {0, q - 1} }

\* slices that no proof was serialized to: every length up to that of a proof
\* of MaxCodecK + 1 rounds, and the lengths about the cap
RawLens ==
    (0 .. (2 * SCALAR_BYTES + 2 * (MaxCodecK + 1) * STARK_POINT_BYTES))
      \cup { 2 * SCALAR_BYTES + 2 * MAX_LG_N * STARK_POINT_BYTES + d :
               d \in {1, STARK_POINT_BYTES, 2 * STARK_POINT_BYTES} }

InitCodec ==
    /\ \/ /\ pc = "created" /\ proof \in CodecProofs /\ buf = <<>> /\ path = "direct"
       \/ /\ pc = "bytes" /\ proof = NoProof /\ path = "raw"
          /\ \E len \in RawLens : buf = Zeros(len)
    /\ NoCreate
    /\ transcript = Transcript_new /\ oracle = EmptyOracle
    /\ decoded = FormatErr(0) /\ vn = 0 /\ vs = NoVs /\ result = "none"

\* one byte of the serialization is dropped, the first or the last
DropByte ==
    /\ pc = "bytes" /\ path = "codec"
    /\ \/ buf' = Tail(buf)
       \/ buf' = SubSeq(buf, 1, Len(buf) - 1)
    /\ path' = "truncated"
    /\ UNCHANGED << pc, inputVars, createVars, transcript, oracle, ptrace, proof, decoded,
                    vn, vs, result >>

\* one byte is added to the serialization
AppendByte ==
    /\ pc = "bytes" /\ path = "codec"
    /\ buf' = Append(buf, 0)
    /\ path' = "extended"
    /\ UNCHANGED << pc, inputVars, createVars, transcript, oracle, ptrace, proof, decoded,
                    vn, vs, result >>

NextCodec ==
    \/ ToBytes
    \/ DropByte
    \/ AppendByte
    \/ FromBytes

SpecCodec == InitCodec /\ [][NextCodec]_vars

-----------------------------------------------------------------------------
(* Claims about the codec (SpecCodec) *)

\* the length is below 2 * SCALAR_BYTES, or the rest is no whole number of
\* points, or an odd number of points
BadLength(len) ==
    \/ len < 2 * SCALAR_BYTES
    \/ (len - 2 * SCALAR_BYTES) % STARK_POINT_BYTES /= 0
    \/ ((len - 2 * SCALAR_BYTES) \div STARK_POINT_BYTES) % 2 /= 0

\* C2 as stated: from_bytes returns FormatError for every slice of a bad
\* length, in particular for the serialization of a proof with one byte
\* dropped; it neither aborts nor returns Ok.
C2_BadLengthRejected ==
    (pc = "decoded" /\ BadLength(Len(buf))) => decoded.kind = "FormatError"

\* the bytes of p laid out as L_0, R_0, ..., L_{k-1}, R_{k-1}, a, b
Layout(bytes, p) ==
    LET k == Len(p.L_vec)
        pair == 2 * STARK_POINT_BYTES
    IN  /\ Len(bytes) = 2 * k * STARK_POINT_BYTES + 2 * SCALAR_BYTES
        /\ Len(bytes) = serialized_size(p)
        /\ \A i \in 0 .. (k - 1) :
              /\ Slice(bytes, pair * i, pair * i + STARK_POINT_BYTES)
                    = PointToBytes(p.L_vec[i + 1])
              /\ Slice(bytes, pair * i + STARK_POINT_BYTES, pair * (i + 1))
                    = PointToBytes(p.R_vec[i + 1])
        /\ Slice(bytes, pair * k, pair * k + SCALAR_BYTES) = ScalarToBytes(p.a)
        /\ Slice(bytes, pair * k + SCALAR_BYTES, Len(bytes)) = ScalarToBytes(p.b)

\* C3 Codec round trip: for a proof p with |L_vec| = |R_vec| = k < 32,
\* to_bytes(p) is laid out as L_0, R_0, ..., a, b and from_bytes of it
\* returns Ok(p') with p' = p.
C3_RoundTrip ==
    ( /\ pc \in {"bytes", "decoded"} /\ path = "codec"
      /\ Len(proof.L_vec) = Len(proof.R_vec) /\ Len(proof.L_vec) < 32 )
        => /\ Layout(buf, proof)
           /\ pc = "decoded" => (decoded.kind = "Ok" /\ decoded.proof = proof)

C3_Witness ==
    /\ pc = "decoded" /\ path = "codec"
    /\ Len(proof.L_vec) = 31 /\ Len(proof.R_vec) = 31
    /\ proof.a /= 0 /\ proof.b /= 0
    /\ decoded.kind = "Ok" /\ decoded.proof = proof

\* the k that the length len encodes
InferredK(len) == ((len - 2 * SCALAR_BYTES) \div STARK_POINT_BYTES) \div 2

\* C6 Size bound: a slice whose inferred k is >= 32 is rejected with
\* FormatError before any point is decoded, and every proof from_bytes
\* returns has |L_vec| = |R_vec| = k < 32.
C6_SizeBound ==
    pc = "decoded" =>
        /\ (Len(buf) >= 2 * SCALAR_BYTES /\ InferredK(Len(buf)) >= 32) =>
              (decoded.kind = "FormatError" /\ decoded.decodes = 0)
        /\ decoded.kind = "Ok" =>
              /\ Len(decoded.proof.L_vec) = InferredK(Len(buf))
              /\ Len(decoded.proof.R_vec) = InferredK(Len(buf))
              /\ InferredK(Len(buf)) < 32

C6_Witness ==
    /\ pc = "decoded" /\ path = "codec"
    /\ Len(proof.L_vec) = 32 /\ Len(buf) = serialized_size(proof)
    /\ decoded.kind = "FormatError" /\ decoded.decodes = 0

-----------------------------------------------------------------------------
(* fold_witness on halves of any length (SpecFold) *)

\* the variables of the codec and the verifier, unused
NoVerifier ==
    /\ transcript = Transcript_new /\ oracle = EmptyOracle
    /\ ptrace = <<>> /\ proof = NoProof /\ buf = <<>> /\ decoded = FormatErr(0)
    /\ vn = 0 /\ vs = NoVs /\ result = "none"
    /\ G_factors = <<>> /\ H_factors = <<>> /\ L_vec = <<>> /\ R_vec = <<>>

FoldLens == 1 .. MaxFoldM

\* 2m points, each with its own mix of the bases
FoldPointsG(len) ==
    [i \in 1 .. len |-> PAdd(Unit(((i - 1) % Dim) + 1), PMul(i % q, GenQ))]
FoldPointsH(len) ==
    [i \in 1 .. len |-> PAdd(PMul(2, Unit(((2 * i) % Dim) + 1)), PMul((i * i) % q, Unit(1)))]

\* scalar vectors whose two halves differ for every m
FoldScalarsA(len) == {[i \in 1 .. len |-> (s + i + (i \div 3)) % q] : s \in {0, 1, 2}}
FoldScalarsB(len) == {[i \in 1 .. len |-> (s + 2 * i + (i \div 4)) % q] : s \in {0, 1}}

\* a, b, G, H of length 2m, to be split in halves as create does, and any u
InitFold ==
    /\ pc = "fstart"
    /\ \E m \in FoldLens :
         /\ n_in = 2 * m /\ n = m
         /\ a_in \in FoldScalarsA(2 * m)
         /\ b_in \in FoldScalarsB(2 * m)
         /\ G_in = FoldPointsG(2 * m)
         /\ H_in = FoldPointsH(2 * m)
    /\ \E u \in NonZero : u_hist = <<u>>
    /\ a_vec = a_in /\ b_vec = b_in /\ G_vec = G_in /\ H_vec = H_in
    /\ path = "fold"
    /\ NoVerifier

\* (a_vec, b_vec, G_vec, H_vec) = fold_witness(u, u_inv, a_L, a_R, ..., H_L, H_R)
Fold ==
    /\ pc = "fstart"
    /\ LET u == u_hist[1]
           folded == fold_witness(u, SInv(u),
                                  Left(a_in, n), Right(a_in, n),
                                  Left(b_in, n), Right(b_in, n),
                                  Left(G_in, n), Right(G_in, n),
                                  Left(H_in, n), Right(H_in, n))
       IN  /\ a_vec' = folded[1] /\ b_vec' = folded[2]
           /\ G_vec' = folded[3] /\ H_vec' = folded[4]
    /\ pc' = "fdone"
    /\ UNCHANGED << inputVars, n, L_vec, R_vec, u_hist, transcript, oracle, ptrace, proof,
                    buf, decoded, path, vn, vs, result >>

NextFold == Fold

SpecFold == InitFold /\ [][NextFold]_vars

-----------------------------------------------------------------------------
(* Claims about fold_witness (SpecFold) *)

\* the folded vectors as equation (4) gives them, element by element
FoldedA(u, u_inv, m) ==
    [i \in 1 .. m |-> (u * a_in[i] + u_inv * a_in[m + i]) % q]
FoldedB(u, u_inv, m) ==
    [i \in 1 .. m |-> (u_inv * b_in[i] + u * b_in[m + i]) % q]
FoldedG(u, u_inv, m) ==
    [i \in 1 .. m |-> PAdd(PMul(u_inv, G_in[i]), PMul(u, G_in[m + i]))]
FoldedH(u, u_inv, m) ==
    [i \in 1 .. m |-> PAdd(PMul(u, H_in[i]), PMul(u_inv, H_in[m + i]))]

\* C11 Folding: for every m >= 1 and every u with u_inv = u^-1, fold_witness
\* returns four vectors of length m with a'_i = u aL_i + u_inv aR_i,
\* b'_i = u_inv bL_i + u bR_i, G'_i = u_inv GL_i + u GR_i and
\* H'_i = u HL_i + u_inv HR_i, in index order; the serial and the parallel
\* path return the same on the same inputs, and the inputs are left as they
\* were.
C11_Folding ==
    [][ pc = "fstart" =>
          LET m == n
              u == u_hist[1]
              u_inv == CHOOSE v \in NonZero : (u * v) % q = 1
              a_L == Left(a_in, m)   a_R == Right(a_in, m)
              b_L == Left(b_in, m)   b_R == Right(b_in, m)
              G_L == Left(G_in, m)   G_R == Right(G_in, m)
              H_L == Left(H_in, m)   H_R == Right(H_in, m)
          IN  /\ Len(a_vec') = m /\ Len(b_vec') = m
              /\ Len(G_vec') = m /\ Len(H_vec') = m
              /\ a_vec' = FoldedA(u, u_inv, m)
              /\ b_vec' = FoldedB(u, u_inv, m)
              /\ G_vec' = FoldedG(u, u_inv, m)
              /\ H_vec' = FoldedH(u, u_inv, m)
              /\ fold_serial(u, u_inv, a_L, a_R, b_L, b_R, G_L, G_R, H_L, H_R, m)
                   = fold_parallel(u, u_inv, a_L, a_R, b_L, b_R, G_L, G_R, H_L, H_R)
              /\ << a_vec', b_vec', G_vec', H_vec' >>
                   = fold_parallel(u, u_inv, a_L, a_R, b_L, b_R, G_L, G_R, H_L, H_R)
              /\ UNCHANGED << a_in, b_in, G_in, H_in, u_hist >> ]_vars

\* a fold on the parallel path whose result depends on the index order
C11_Witness ==
    /\ pc = "fdone" /\ n >= PARALLELISM_THRESHOLD
    /\ Len(a_vec) = n /\ Len(G_vec) = n
    /\ u_hist[1] \notin {1, q - 1}
    /\ a_vec /= Reverse(a_vec) /\ G_vec /= Reverse(G_vec)
    /\ a_vec = FoldedA(u_hist[1], SInv(u_hist[1]), n)

====
